---- MODULE Spec2Model ----
(***************************************************************************)
(* vitamink: the presence daemon of src/daemon.rs (Daemon::new, run, poll, *)
(* apply_state) with its collaborators display::read_dpms,                 *)
(* display::enable_dummy_plug / disable_dummy_plug and sunshine::start /   *)
(* stop / is_running, and display::wait_for_drm_active and                 *)
(* display::parse_displays each under a specification of its own.          *)
(*                                                                         *)
(* Time is the monotonic clock of std::time::Instant, in whole units.      *)
(* One tick of Daemon::run is a Sleep step followed by one poll step.  A   *)
(* poll reads the signal and consults the clock at the instant `now`; the  *)
(* time the rest of the tick takes is part of the next Sleep step's        *)
(* advance, except for the second clock read of the still-waiting branch,  *)
(* which is taken `d` units after the first.                               *)
(***************************************************************************)
EXTENDS Integers, Sequences, FiniteSets

\* ---- bounds of the model ----
MaxTime == 7
MaxGrace == 3
MaxPoll == 2
MaxJitter == 1
MaxDrift == 2
MaxTicks == 3
MaxTimeout == 3
MaxLines == 4

VARIABLES
    config_source,       \* how the Config given to Daemon::new was made: "default" or "given"
    main_display,        \* Config::main_display
    dummy_plug,          \* Config::dummy_plug
    grace_period,        \* Config::grace_period
    poll_interval,       \* Config::poll_interval
    state,               \* Daemon::state
    transition_started,  \* Daemon::transition_started: <<>> is None, <<t>> is Some(t)
    now,                 \* the monotonic clock
    pc,                  \* position of Daemon::run
    dpms,                \* the most recent result of display::read_dpms
    dummy,               \* hardware: the dummy output is enabled
    service,             \* hardware: the sunshine service is active
    calls,               \* the collaborator calls made in the current tick, in order
    outcome,             \* the branch the current tick's poll took
    result,              \* what the current tick's apply_state / poll returned
    lastDefinite,        \* observer: the most recent reading other than Unknown
    runStart,            \* observer: time of the first reading of the current run of identical readings
    changes,             \* observer: changes of state within the current run of identical readings
    disagreeSince,       \* observer: time of the first disagreeing reading with no agreeing reading or commit since
    reads,               \* observer: calls of display::read_dpms so far, counted up to MaxTicks + 1
    sleeps,              \* observer: calls of thread::sleep so far, counted up to MaxTicks
    scenario,            \* observer: the times of the polls so far while they follow Scenario A, else Broken
    sinksOk,             \* observer: every effect-sink call so far succeeded and is_running answered truly
    card1,               \* /sys/class/drm/card1-<display>/dpms as display::read_dpms found it (SpecReadDpms)
    card0,               \* /sys/class/drm/card0-<display>/dpms as display::read_dpms found it (SpecReadDpms)
    enabled1,            \* /sys/class/drm/card1-<name>/enabled (SpecWait)
    enabled0,            \* /sys/class/drm/card0-<name>/enabled (SpecWait)
    timeout,             \* wait_for_drm_active: its argument timeout
    start,               \* wait_for_drm_active: its local start
    wake_at,             \* wait_for_drm_active: the earliest time its thread::sleep(poll) returns
    wait_pc,             \* position of wait_for_drm_active
    wait_result,         \* what wait_for_drm_active returned
    activeSince,         \* observer: since when the display has been DRM-active without a break
    output,              \* parse_displays: its argument output, a sequence of characters (SpecParse)
    displays             \* parse_displays: what it returned

vars == <<config_source, main_display, dummy_plug, grace_period, poll_interval, state, transition_started, now, pc, dpms,
          dummy, service, calls, outcome, result, lastDefinite, runStart, changes,
          disagreeSince, reads, sleeps, scenario, sinksOk, card1, card0,
          enabled1, enabled0, timeout, start, wake_at, wait_pc, wait_result, activeSince,
          output, displays>>

config == <<config_source, main_display, dummy_plug, grace_period, poll_interval>>
hardware == <<dummy, service>>
sysfs == <<card1, card0>>
drm == <<enabled1, enabled0, timeout, start, wake_at, wait_pc, wait_result, activeSince>>
kscreen == <<output, displays>>
observers == <<lastDefinite, runStart, changes, disagreeSince, reads, scenario, sinksOk>>

\* ---- types ----
DpmsState == {"On", "Off", "Unknown"}
State == {"AtDesk", "Away"}
None == <<>>
Some(t) == <<t>>

\* Instant::elapsed of Some(t) read when the clock shows `at`
Elapsed(started, at) == at - started[1]

\* ---- Config ----
\* mutant: the two durations of Config::default exchanged
ConfigDefault_Exchanged ==
    [main_display |-> "DP-2", dummy_plug |-> "HDMI-A-1",
     poll_interval |-> 10, grace_period |-> 5]

\* Config::default, its durations in seconds
ConfigDefault ==
    [main_display |-> "DP-2", dummy_plug |-> "HDMI-A-1",
     poll_interval |-> 5, grace_period |-> 10]

\* the Config given to Daemon::new: Config::default(), or a Config with
\* durations of the caller's choice
ConfigGiven ==
    \/ /\ config_source = "default"
       /\ main_display = ConfigDefault.main_display
       /\ dummy_plug = ConfigDefault.dummy_plug
       /\ poll_interval = ConfigDefault.poll_interval
       /\ grace_period = ConfigDefault.grace_period
    \/ /\ config_source = "given"
       /\ main_display = ConfigDefault.main_display
       /\ dummy_plug = ConfigDefault.dummy_plug
       /\ poll_interval \in 0..MaxPoll
       /\ grace_period \in 0..MaxGrace

\* ---- display::read_dpms ----
\* a file is unreadable (missing, no permission) or has content, a sequence
\* of characters
Unreadable == [readable |-> FALSE, content |-> <<>>]
File(content) == [readable |-> TRUE, content |-> content]

\* str::trim: the content without its leading and trailing white space
IsWhitespace(c) == c \in {" ", "\n", "\t", "\r"}
RECURSIVE TrimStart(_)
TrimStart(cs) ==
    IF cs # <<>> /\ IsWhitespace(Head(cs)) THEN TrimStart(Tail(cs)) ELSE cs
RECURSIVE TrimEnd(_)
TrimEnd(cs) ==
    IF cs # <<>> /\ IsWhitespace(cs[Len(cs)])
    THEN TrimEnd(SubSeq(cs, 1, Len(cs) - 1))
    ELSE cs
Trim(cs) == TrimEnd(TrimStart(cs))

\* the match on content.trim()
MatchDpms(cs) ==
    IF Trim(cs) = <<"O", "n">> THEN "On"
    ELSE IF Trim(cs) = <<"O", "f", "f">> THEN "Off"
    ELSE "Unknown"

\* mutant: a file whose content is neither On nor Off is skipped and the
\* next path is tried
ReadDpms_SkipsUnmatched(c1, c0) ==
    IF c1.readable /\ MatchDpms(c1.content) # "Unknown" THEN MatchDpms(c1.content)
    ELSE IF c0.readable THEN MatchDpms(c0.content)
    ELSE "Unknown"

\* read_dpms: the first path that can be read decides, card1 before card0
ReadDpms(c1, c0) ==
    IF c1.readable THEN MatchDpms(c1.content)
    ELSE IF c0.readable THEN MatchDpms(c0.content)
    ELSE "Unknown"

\* the files read_dpms is tried on
DpmsFiles ==
    { Unreadable,
      File(<<>>),
      File(<<"\n">>),
      File(<<"O", "n">>),
      File(<<"O", "n", "\n">>),
      File(<<"O", "f", "f">>),
      File(<<"O", "f", "f", "\n">>),
      File(<<" ", "O", "n", "\t", "\r", "\n">>),
      File(<<"O", "f">>),
      File(<<"o", "n", "\n">>),
      File(<<"O", "n", " ", "O", "f", "f">>),
      File(<<"O", " ", "n", "\n">>),
      File(<<"S", "t", "a", "n", "d", "b", "y", "\n">>),
      File(<<"S", "u", "s", "p", "e", "n", "d", "\n">>) }

\* ---- the reading's state ----
\* mutant: the match of Daemon::new with On as its only named arm
InitialState_OnElseAway(r) == IF r = "On" THEN "AtDesk" ELSE "Away"

\* Daemon::new: Off gives Away, anything else AtDesk
InitialState(r) == IF r = "Off" THEN "Away" ELSE "AtDesk"
\* Daemon::poll: Off gives Away, On gives AtDesk; poll asks for it only
\* when the reading is not held
Desired(r) == IF r = "Off" THEN "Away" ELSE "AtDesk"

\* ---- collaborator calls ----
Call(op, ret) == [op |-> op, ret |-> ret]
Ret(ok) == IF ok THEN "ok" ELSE "err"

\* sunshine::is_running: the exit status of systemctl is-active, false when
\* the command cannot be run
IsRunning(active, qok) == active /\ qok

\* mutant: both arms of apply_state with their two steps in the other order
ApplyCalls_Swapped(s, run, ok1, ok2) ==
    IF s = "Away"
    THEN IF ok1
         THEN <<Call("start", "ok"), Call("enable_dummy_plug", Ret(ok2))>>
         ELSE <<Call("start", "err")>>
    ELSE IF ok1
         THEN IF run
              THEN <<Call("disable_dummy_plug", "ok"), Call("is_running", "true"),
                     Call("stop", Ret(ok2))>>
              ELSE <<Call("disable_dummy_plug", "ok"), Call("is_running", "false")>>
         ELSE <<Call("disable_dummy_plug", "err")>>

\* mutant: the AtDesk arm stops the service whatever is_running answers
ApplyCalls_StopUnasked(s, run, ok1, ok2) ==
    IF s = "Away"
    THEN IF ok1
         THEN <<Call("enable_dummy_plug", "ok"), Call("start", Ret(ok2))>>
         ELSE <<Call("enable_dummy_plug", "err")>>
    ELSE IF ok1
         THEN <<Call("is_running", IF run THEN "true" ELSE "false"), Call("stop", "ok"),
                Call("disable_dummy_plug", Ret(ok2))>>
         ELSE <<Call("is_running", IF run THEN "true" ELSE "false"), Call("stop", "err")>>

\* mutant: apply_state logs a failed step and goes on to the next
ApplyCalls_GoesOn(s, run, ok1, ok2) ==
    IF s = "Away"
    THEN <<Call("enable_dummy_plug", Ret(ok1)), Call("start", Ret(ok2))>>
    ELSE IF run
         THEN <<Call("is_running", "true"), Call("stop", Ret(ok1)),
                Call("disable_dummy_plug", Ret(ok2))>>
         ELSE <<Call("is_running", "false"), Call("disable_dummy_plug", Ret(ok2))>>

\* mutant: the AtDesk arm disables the dummy output only inside the
\* if-block that stops a running service
ApplyCalls_DisableInsideIf(s, run, ok1, ok2) ==
    IF s = "Away"
    THEN IF ok1
         THEN <<Call("enable_dummy_plug", "ok"), Call("start", Ret(ok2))>>
         ELSE <<Call("enable_dummy_plug", "err")>>
    ELSE IF run
         THEN IF ok1
              THEN <<Call("is_running", "true"), Call("stop", "ok"),
                     Call("disable_dummy_plug", Ret(ok2))>>
              ELSE <<Call("is_running", "true"), Call("stop", "err")>>
         ELSE <<Call("is_running", "false")>>

\* Daemon::apply_state: the calls it makes for state s, when is_running
\* answers run and the first and second fallible call succeed as ok1, ok2
ApplyCalls(s, run, ok1, ok2) ==
    IF s = "Away"
    THEN IF ok1
         THEN <<Call("enable_dummy_plug", "ok"), Call("start", Ret(ok2))>>
         ELSE <<Call("enable_dummy_plug", "err")>>
    ELSE IF run
         THEN IF ok1
              THEN <<Call("is_running", "true"), Call("stop", "ok"),
                     Call("disable_dummy_plug", Ret(ok2))>>
              ELSE <<Call("is_running", "true"), Call("stop", "err")>>
         ELSE <<Call("is_running", "false"), Call("disable_dummy_plug", Ret(ok2))>>

\* the Result apply_state returns: the ? operator returns the first Err
ApplyResult(cs) == IF cs[Len(cs)].ret = "err" THEN "Err" ELSE "Ok"

Succeeded(cs, op) == \E i \in 1..Len(cs) : cs[i].op = op /\ cs[i].ret = "ok"

\* the hardware after the calls: a call that succeeded has done its work
DummyAfter(cs, d) ==
    IF Succeeded(cs, "enable_dummy_plug") THEN TRUE
    ELSE IF Succeeded(cs, "disable_dummy_plug") THEN FALSE
    ELSE d
ServiceAfter(cs, sv) ==
    IF Succeeded(cs, "start") THEN TRUE
    ELSE IF Succeeded(cs, "stop") THEN FALSE
    ELSE sv

\* the calls cs, made while the service was active as sv, all did what was
\* asked: control and run_kscreen_doctor returned Ok, and is_running
\* answered with the service's true status
AsAsked(cs, sv) ==
    \A i \in 1..Len(cs) :
        /\ cs[i].ret # "err"
        /\ cs[i].op = "is_running" => cs[i].ret = (IF sv THEN "true" ELSE "false")

\* Scenario A of the specification: the daemon starts with signal On; every
\* poll reads Off; the second and the third Off each come grace_period / 2
\* after the reading before them; a fourth Off comes any time later.
Broken == <<-1>>
FollowsScenarioA(sc, r, at) ==
    /\ sc # Broken
    /\ r = "Off"
    /\ Len(sc) <= 3
    /\ Len(sc) \in {1, 2} => 2 * (at - sc[Len(sc)]) = grace_period

\* ---- observers of the reading sequence ----
ObserveRead(r, committed) ==
    /\ lastDefinite' = IF r = "Unknown" THEN lastDefinite ELSE r
    /\ runStart' = IF r = dpms THEN runStart ELSE now
    /\ changes' = (IF r = dpms THEN changes ELSE 0) + (IF committed THEN 1 ELSE 0)
    /\ disagreeSince' =
          IF r = "Unknown" THEN disagreeSince
          ELSE IF Desired(r) = state \/ committed THEN None
          ELSE IF disagreeSince = None THEN Some(now)
          ELSE disagreeSince
    /\ reads' = IF reads <= MaxTicks THEN reads + 1 ELSE reads
    /\ scenario' = IF FollowsScenarioA(scenario, r, now) THEN Append(scenario, now) ELSE Broken
    /\ sinksOk' = (sinksOk /\ (committed => AsAsked(calls', service)))

\* ---- display::parse_displays, parse_single_display, parse_modes ----
\* Result<T, String>: Err carries the kind of its message
Ok(v) == [ok |-> TRUE, val |-> v, err |-> ""]
Err(e) == [ok |-> FALSE, val |-> <<>>, err |-> e]

\* str::starts_with
StartsWith(cs, p) == Len(cs) >= Len(p) /\ SubSeq(cs, 1, Len(p)) = p

\* the first index from i on where cs has the character c, 0 when none
RECURSIVE Find(_, _, _)
Find(cs, c, i) ==
    IF i > Len(cs) THEN 0
    ELSE IF cs[i] = c THEN i
    ELSE Find(cs, c, i + 1)

\* str::contains(char)
Contains(cs, c) == Find(cs, c, 1) # 0

\* str::split_once(char): <<>> is None, <<before, after>> is Some
SplitOnce(cs, c) ==
    LET n == Find(cs, c, 1) IN
    IF n = 0 THEN <<>>
    ELSE <<SubSeq(cs, 1, n - 1), SubSeq(cs, n + 1, Len(cs))>>

\* str::lines: the pieces that end in a line feed, each without the
\* carriage return before it, and what is left after the last line feed
StripCr(cs) ==
    IF cs # <<>> /\ cs[Len(cs)] = "\r" THEN SubSeq(cs, 1, Len(cs) - 1) ELSE cs
RECURSIVE Lines(_)
Lines(cs) ==
    IF cs = <<>> THEN <<>>
    ELSE LET n == Find(cs, "\n", 1) IN
         IF n = 0 THEN <<cs>>
         ELSE <<StripCr(SubSeq(cs, 1, n - 1))>> \o Lines(SubSeq(cs, n + 1, Len(cs)))

\* str::split_whitespace: the maximal runs of characters other than white space
RECURSIVE WordEnd(_, _)
WordEnd(cs, i) ==
    IF i > Len(cs) \/ IsWhitespace(cs[i]) THEN i - 1 ELSE WordEnd(cs, i + 1)
RECURSIVE SplitWhitespace(_)
SplitWhitespace(cs) ==
    LET t == TrimStart(cs) IN
    IF t = <<>> THEN <<>>
    ELSE LET n == WordEnd(t, 1) IN
         <<SubSeq(t, 1, n)>> \o SplitWhitespace(SubSeq(t, n + 1, Len(t)))

\* str::parse::<u32>: decimal digits after an optional +, at most u32::MAX
Digits == <<"0", "1", "2", "3", "4", "5", "6", "7", "8", "9">>
IsDigit(c) == \E i \in 1..10 : Digits[i] = c
DigitValue(c) == (CHOOSE i \in 1..10 : Digits[i] = c) - 1
RECURSIVE Decimal(_, _)
Decimal(cs, acc) ==
    IF cs = <<>> THEN acc ELSE Decimal(Tail(cs), 10 * acc + DigitValue(Head(cs)))
RECURSIVE StripZeros(_)
StripZeros(ds) == IF ds # <<>> /\ Head(ds) = "0" THEN StripZeros(Tail(ds)) ELSE ds
U32Max == <<"4", "2", "9", "4", "9", "6", "7", "2", "9", "5">>
ExceedsU32(ds) ==
    LET z == StripZeros(ds) IN
    \/ Len(z) > Len(U32Max)
    \/ /\ Len(z) = Len(U32Max)
       /\ \E i \in 1..Len(z) :
             /\ DigitValue(z[i]) > DigitValue(U32Max[i])
             /\ \A j \in 1..(i - 1) : z[j] = U32Max[j]
ParseU32(cs) ==
    LET ds == IF cs # <<>> /\ Head(cs) = "+" THEN Tail(cs) ELSE cs IN
    IF ds = <<>> \/ (\E i \in 1..Len(ds) : ~IsDigit(ds[i])) THEN Err("parse")
    ELSE IF ExceedsU32(ds) THEN Err("parse")
    ELSE Ok(Decimal(ds, 0))

\* str::parse::<f64>, for the decimal forms kscreen-doctor prints: digits
\* with at most one point and at least one digit, after an optional sign;
\* the value is kept as its whole part and the digits of its fraction
ParseF64(cs) ==
    LET ds == IF cs # <<>> /\ Head(cs) \in {"+", "-"} THEN Tail(cs) ELSE cs
        parts == SplitOnce(ds, ".")
        whole == IF parts = <<>> THEN ds ELSE parts[1]
        frac == IF parts = <<>> THEN <<>> ELSE parts[2]
    IN
    IF whole \o frac = <<>> THEN Err("parse")
    ELSE IF \E i \in 1..Len(whole \o frac) : ~IsDigit((whole \o frac)[i]) THEN Err("parse")
    ELSE Ok([whole |-> Decimal(whole, 0), fraction |-> frac,
             negative |-> (cs # <<>> /\ Head(cs) = "-")])

\* str::replace(['*', '!'], "")
WithoutFlags(cs) == SelectSeq(cs, LAMBDA c : c \notin {"*", "!"})

\* the body of parse_modes' loop: one token <id>:<width>x<height>@<refresh><flags>
ParseMode(token) ==
    LET idspec == SplitOnce(token, ":") IN
    IF idspec = <<>> THEN Err("Invalid mode token")
    ELSE
    LET id == ParseU32(idspec[1])
        spec == idspec[2]
        clean == WithoutFlags(spec)
        resrefresh == SplitOnce(clean, "@")
    IN
    IF ~id.ok THEN Err("Invalid mode id")
    ELSE IF resrefresh = <<>> THEN Err("Invalid mode spec")
    ELSE
    LET wh == SplitOnce(resrefresh[1], "x") IN
    IF wh = <<>> THEN Err("Invalid resolution")
    ELSE
    LET width == ParseU32(wh[1])
        height == ParseU32(wh[2])
        refresh == ParseF64(resrefresh[2])
    IN
    IF ~width.ok THEN Err("Invalid width")
    ELSE IF ~height.ok THEN Err("Invalid height")
    ELSE IF ~refresh.ok THEN Err("Invalid refresh")
    ELSE Ok([id |-> id.val, width |-> width.val, height |-> height.val,
             refresh |-> refresh.val, preferred |-> Contains(spec, "!"),
             current |-> Contains(spec, "*")])

ModesPrefix == <<"M", "o", "d", "e", "s", ":">>

\* parse_modes: the tokens in order, stopping at the first that fails
RECURSIVE ParseModeTokens(_, _)
ParseModeTokens(tokens, modes) ==
    IF tokens = <<>> THEN Ok(modes)
    ELSE LET m == ParseMode(Head(tokens)) IN
         IF m.ok THEN ParseModeTokens(Tail(tokens), Append(modes, m.val)) ELSE m
ParseModes(line) ==
    LET modes_str == Trim(IF StartsWith(line, ModesPrefix)
                          THEN SubSeq(line, Len(ModesPrefix) + 1, Len(line))
                          ELSE line)
    IN ParseModeTokens(SplitWhitespace(modes_str), <<>>)

KwEnabled == <<"e", "n", "a", "b", "l", "e", "d">>
KwDisabled == <<"d", "i", "s", "a", "b", "l", "e", "d">>
KwConnected == <<"c", "o", "n", "n", "e", "c", "t", "e", "d">>
KwDisconnected == <<"d", "i", "s", "c", "o", "n", "n", "e", "c", "t", "e", "d">>

\* the loop of parse_single_display over the body lines: d holds state,
\* connection and modes so far
RECURSIVE ParseBody(_, _)
ParseBody(body, d) ==
    IF body = <<>> THEN Ok(d)
    ELSE LET trimmed == Trim(Head(body)) IN
         IF trimmed = KwEnabled THEN ParseBody(Tail(body), [d EXCEPT !.state = "Enabled"])
         ELSE IF trimmed = KwDisabled THEN ParseBody(Tail(body), [d EXCEPT !.state = "Disabled"])
         ELSE IF trimmed = KwConnected
              THEN ParseBody(Tail(body), [d EXCEPT !.connection = "Connected"])
         ELSE IF trimmed = KwDisconnected
              THEN ParseBody(Tail(body), [d EXCEPT !.connection = "Disconnected"])
         ELSE IF StartsWith(trimmed, ModesPrefix)
              THEN LET modes == ParseModes(trimmed) IN
                   IF modes.ok THEN ParseBody(Tail(body), [d EXCEPT !.modes = modes.val])
                   ELSE modes
         ELSE ParseBody(Tail(body), d)

\* parse_single_display
ParseSingleDisplay(header, body) ==
    LET parts == SplitWhitespace(header) IN
    IF Len(parts) < 4 THEN Err("Invalid display header")
    ELSE LET index == ParseU32(parts[2]) IN
         IF ~index.ok THEN Err("Invalid index")
         ELSE ParseBody(body, [index |-> index.val, name |-> parts[3], uuid |-> parts[4],
                               state |-> "Disabled", connection |-> "Disconnected",
                               modes |-> <<>>])

OutputPrefix == <<"O", "u", "t", "p", "u", "t", ":">>

\* mutant: current_lines is not cleared when the next header is met
RECURSIVE ParseLines_KeepsLines(_, _, _, _, _)
ParseLines_KeepsLines(lines, i, parsed, current_lines, header_line) ==
    IF i > Len(lines)
    THEN IF header_line # <<>>
         THEN LET d == ParseSingleDisplay(header_line[1], current_lines) IN
              IF d.ok THEN Ok(Append(parsed, d.val)) ELSE d
         ELSE Ok(parsed)
    ELSE IF StartsWith(lines[i], OutputPrefix)
    THEN IF header_line # <<>>
         THEN LET d == ParseSingleDisplay(header_line[1], current_lines) IN
              IF d.ok
              THEN ParseLines_KeepsLines(lines, i + 1, Append(parsed, d.val), current_lines,
                                         <<lines[i]>>)
              ELSE d
         ELSE ParseLines_KeepsLines(lines, i + 1, parsed, current_lines, <<lines[i]>>)
    ELSE IF header_line # <<>>
    THEN ParseLines_KeepsLines(lines, i + 1, parsed, Append(current_lines, lines[i]), header_line)
    ELSE ParseLines_KeepsLines(lines, i + 1, parsed, current_lines, header_line)

\* the loop of parse_displays over output.lines(), from line i on, and the
\* push after it; header_line is <<>> for None, <<line>> for Some(line)
RECURSIVE ParseLines(_, _, _, _, _)
ParseLines(lines, i, parsed, current_lines, header_line) ==
    IF i > Len(lines)
    THEN IF header_line # <<>>
         THEN LET d == ParseSingleDisplay(header_line[1], current_lines) IN
              IF d.ok THEN Ok(Append(parsed, d.val)) ELSE d
         ELSE Ok(parsed)
    ELSE IF StartsWith(lines[i], OutputPrefix)
    THEN IF header_line # <<>>
         THEN LET d == ParseSingleDisplay(header_line[1], current_lines) IN
              IF d.ok
              THEN ParseLines(lines, i + 1, Append(parsed, d.val), <<>>, <<lines[i]>>)
              ELSE d
         ELSE ParseLines(lines, i + 1, parsed, <<>>, <<lines[i]>>)
    ELSE IF header_line # <<>>
    THEN ParseLines(lines, i + 1, parsed, Append(current_lines, lines[i]), header_line)
    ELSE ParseLines(lines, i + 1, parsed, current_lines, header_line)

\* parse_displays
ParseDisplays(out) == ParseLines(Lines(out), 1, <<>>, <<>>, <<>>)

\* parse_displays is not called by the daemon
ParseNotCalled ==
    /\ output = <<>>
    /\ displays = Ok(<<>>)

\* ---- display::is_drm_active ----
Enabled == <<"e", "n", "a", "b", "l", "e", "d">>
Disabled == <<"d", "i", "s", "a", "b", "l", "e", "d">>

\* the first of the two paths that can be read decides: its trimmed content
\* is compared with "enabled"; false when neither can be read
IsDrmActive(e1, e0) ==
    IF e1.readable THEN Trim(e1.content) = Enabled
    ELSE IF e0.readable THEN Trim(e0.content) = Enabled
    ELSE FALSE

\* what the kernel leaves in an enabled file, and a file cut short
EnabledFiles ==
    {Unreadable, File(Enabled \o <<"\n">>), File(Disabled \o <<"\n">>), File(<<>>)}

\* wait_for_drm_active is not called by the daemon
WaitNotCalled ==
    /\ enabled1 = Unreadable
    /\ enabled0 = Unreadable
    /\ timeout = 0
    /\ start = None
    /\ wake_at = 0
    /\ wait_pc = "idle"
    /\ wait_result = "none"
    /\ activeSince = None

\* ---- Daemon::new ----
Init ==
    /\ ConfigGiven
    /\ dpms \in DpmsState
    /\ state = InitialState(dpms)
    /\ transition_started = None
    /\ now = 0
    /\ pc = "start"
    /\ dummy \in BOOLEAN
    /\ service \in BOOLEAN
    /\ calls = <<>>
    /\ outcome = "none"
    /\ result = "Ok"
    /\ lastDefinite = dpms
    /\ runStart = 0
    /\ changes = 0
    /\ disagreeSince = None
    /\ reads = 1
    /\ sleeps = 0
    /\ scenario = IF dpms = "On" THEN <<>> ELSE Broken
    /\ sinksOk = TRUE
    /\ card1 = Unreadable
    /\ card0 = Unreadable
    /\ WaitNotCalled
    /\ ParseNotCalled

\* ---- Daemon::run: the startup reconciliation ----
RunApplyInitial ==
    /\ pc = "start"
    /\ \E qok, ok1, ok2 \in BOOLEAN :
          LET cs == ApplyCalls(state, IsRunning(service, qok), ok1, ok2) IN
          /\ calls' = cs
          /\ result' = ApplyResult(cs)
          /\ dummy' = DummyAfter(cs, dummy)
          /\ service' = ServiceAfter(cs, service)
          /\ sinksOk' = (sinksOk /\ AsAsked(cs, service))
    /\ outcome' = "initial"
    /\ pc' = "sleep"
    /\ UNCHANGED <<config, sysfs, drm, kscreen, sleeps, state, transition_started, now, dpms,
                   lastDefinite, runStart, changes, disagreeSince, reads, scenario>>

\* mutant: a sleep that may return before poll_interval has passed
Sleep_Short ==
    /\ pc = "sleep"
    /\ \E j \in 0..MaxJitter :
          /\ now + j <= MaxTime
          /\ now' = now + j
    /\ pc' = "poll"
    /\ calls' = <<>>
    /\ outcome' = "none"
    /\ result' = "Ok"
    /\ sleeps' = IF sleeps < MaxTicks THEN sleeps + 1 ELSE sleeps
    /\ UNCHANGED <<config, sysfs, drm, kscreen, state, transition_started, dpms, hardware, observers>>

\* ---- Daemon::run: thread::sleep(poll_interval), which sleeps at least that long ----
Sleep ==
    /\ pc = "sleep"
    /\ \E j \in 0..MaxJitter :
          /\ now + poll_interval + j <= MaxTime
          /\ now' = now + poll_interval + j
    /\ pc' = "poll"
    /\ calls' = <<>>
    /\ outcome' = "none"
    /\ result' = "Ok"
    /\ sleeps' = IF sleeps < MaxTicks THEN sleeps + 1 ELSE sleeps
    /\ UNCHANGED <<config, sysfs, drm, kscreen, state, transition_started, dpms, hardware, observers>>

\* ---- Daemon::poll ----
\* mutant: the reading is matched as in Daemon::new, Unknown falling
\* through to the AtDesk arm
Holds_Never(r) == FALSE

\* the Unknown arm of the match on the reading: log and return
Holds(r) == r = "Unknown"

\* mutant: the guard with > for >=
GraceElapsed_Strict(started, at) == Elapsed(started, at) > grace_period

\* mutant: the commit arm without its guard
GraceElapsed_Always(started, at) == TRUE

\* the guard of the commit arm: started.elapsed() >= grace_period
GraceElapsed(started, at) == Elapsed(started, at) >= grace_period

\* mutant: the timer cleared only after apply_state returned Ok
CommitTimer_AfterApply(res) == IF res = "Err" THEN transition_started ELSE None

\* what the commit arm leaves in transition_started, cleared before
\* apply_state runs, whatever apply_state then returns
CommitTimer(res) == None

\* mutant: the state assigned only after apply_state returned Ok
CommitState_AfterApply(r, res) == IF res = "Err" THEN state ELSE Desired(r)

\* self.state after the commit arm, assigned before apply_state runs
CommitState(r, res) == Desired(r)

\* mutant: an Unknown reading clears the timer, like an agreeing one
PollUnknown_ClearsTimer(r) ==
    /\ pc = "poll"
    /\ Holds(r)
    /\ transition_started' = None
    /\ dpms' = r
    /\ outcome' = "hold"
    /\ result' = "Ok"
    /\ pc' = "sleep"
    /\ ObserveRead(r, FALSE)
    /\ UNCHANGED <<config, sysfs, drm, kscreen, sleeps, state, now, hardware, calls>>

\* the arms of poll, one action each; r is the reading
PollUnknown(r) ==
    /\ pc = "poll"
    /\ Holds(r)
    /\ dpms' = r
    /\ outcome' = "hold"
    /\ result' = "Ok"
    /\ pc' = "sleep"
    /\ ObserveRead(r, FALSE)
    /\ UNCHANGED <<config, sysfs, drm, kscreen, sleeps, state, transition_started, now, hardware, calls>>

\* mutant: the agreeing arm returns without clearing the timer
PollAgree_KeepsTimer(r) ==
    /\ pc = "poll"
    /\ ~Holds(r)
    /\ Desired(r) = state
    /\ dpms' = r
    /\ outcome' = IF transition_started = None THEN "noop" ELSE "cleared"
    /\ result' = "Ok"
    /\ pc' = "sleep"
    /\ ObserveRead(r, FALSE)
    /\ UNCHANGED <<config, sysfs, drm, kscreen, sleeps, state, transition_started, now, hardware, calls>>

\* mutant: the agreeing arm applies the committed state again
PollAgree_Reapplies(r) ==
    /\ pc = "poll"
    /\ ~Holds(r)
    /\ Desired(r) = state
    /\ transition_started' = None
    /\ \E qok, ok1, ok2 \in BOOLEAN :
          LET cs == ApplyCalls(state, IsRunning(service, qok), ok1, ok2) IN
          /\ calls' = cs
          /\ result' = ApplyResult(cs)
          /\ dummy' = DummyAfter(cs, dummy)
          /\ service' = ServiceAfter(cs, service)
    /\ dpms' = r
    /\ outcome' = IF transition_started = None THEN "noop" ELSE "cleared"
    /\ pc' = "sleep"
    /\ ObserveRead(r, FALSE)
    /\ UNCHANGED <<config, sysfs, drm, kscreen, sleeps, state, now>>

PollAgree(r) ==
    /\ pc = "poll"
    /\ ~Holds(r)
    /\ Desired(r) = state
    /\ transition_started' = None
    /\ dpms' = r
    /\ outcome' = IF transition_started = None THEN "noop" ELSE "cleared"
    /\ result' = "Ok"
    /\ pc' = "sleep"
    /\ ObserveRead(r, FALSE)
    /\ UNCHANGED <<config, sysfs, drm, kscreen, sleeps, state, now, hardware, calls>>

\* mutant: the None arm starts the timer and falls through to the guard,
\* which a grace_period of zero satisfies at once
PollStart_FallsThrough(r) ==
    /\ pc = "poll"
    /\ ~Holds(r)
    /\ Desired(r) # state
    /\ transition_started = None
    /\ IF GraceElapsed(Some(now), now)
       THEN /\ \E qok, ok1, ok2 \in BOOLEAN :
                  LET cs == ApplyCalls(Desired(r), IsRunning(service, qok), ok1, ok2) IN
                  /\ calls' = cs
                  /\ result' = ApplyResult(cs)
                  /\ dummy' = DummyAfter(cs, dummy)
                  /\ service' = ServiceAfter(cs, service)
            /\ state' = Desired(r)
            /\ transition_started' = None
            /\ outcome' = "commit"
            /\ ObserveRead(r, TRUE)
       ELSE /\ transition_started' = Some(now)
            /\ outcome' = "started"
            /\ result' = "Ok"
            /\ ObserveRead(r, FALSE)
            /\ UNCHANGED <<state, hardware, calls>>
    /\ dpms' = r
    /\ pc' = "sleep"
    /\ UNCHANGED <<config, sysfs, drm, kscreen, sleeps, now>>

PollStart(r) ==
    /\ pc = "poll"
    /\ ~Holds(r)
    /\ Desired(r) # state
    /\ transition_started = None
    /\ transition_started' = Some(now)
    /\ dpms' = r
    /\ outcome' = "started"
    /\ result' = "Ok"
    /\ pc' = "sleep"
    /\ ObserveRead(r, FALSE)
    /\ UNCHANGED <<config, sysfs, drm, kscreen, sleeps, state, now, hardware, calls>>

\* mutant: the commit arm returns without calling apply_state, leaving the
\* effects to a later tick
PollCommit_Deferred(r) ==
    /\ pc = "poll"
    /\ ~Holds(r)
    /\ Desired(r) # state
    /\ transition_started # None
    /\ GraceElapsed(transition_started, now)
    /\ state' = Desired(r)
    /\ transition_started' = None
    /\ dpms' = r
    /\ outcome' = "commit"
    /\ result' = "Ok"
    /\ pc' = "sleep"
    /\ UNCHANGED <<config, sysfs, drm, kscreen, sleeps, now, hardware, calls>>
    /\ ObserveRead(r, TRUE)

PollCommit(r) ==
    /\ pc = "poll"
    /\ ~Holds(r)
    /\ Desired(r) # state
    /\ transition_started # None
    /\ GraceElapsed(transition_started, now)
    /\ \E qok, ok1, ok2 \in BOOLEAN :
          LET cs == ApplyCalls(Desired(r), IsRunning(service, qok), ok1, ok2) IN
          /\ state' = CommitState(r, ApplyResult(cs))
          /\ transition_started' = CommitTimer(ApplyResult(cs))
          /\ calls' = cs
          /\ result' = ApplyResult(cs)
          /\ dummy' = DummyAfter(cs, dummy)
          /\ service' = ServiceAfter(cs, service)
    /\ dpms' = r
    /\ outcome' = "commit"
    /\ pc' = "sleep"
    /\ ObserveRead(r, TRUE)
    /\ UNCHANGED <<config, sysfs, drm, kscreen, sleeps, now>>

\* mutant: the still-waiting arm starts the timer again
PollWait_RestartsTimer(r) ==
    /\ pc = "poll"
    /\ ~Holds(r)
    /\ Desired(r) # state
    /\ transition_started # None
    /\ ~GraceElapsed(transition_started, now)
    /\ \E d \in 0..MaxDrift :
          /\ now + d <= MaxTime
          /\ grace_period - Elapsed(transition_started, now + d) >= 0
          /\ now' = now + d
    /\ transition_started' = Some(now)
    /\ dpms' = r
    /\ outcome' = "waiting"
    /\ result' = "Ok"
    /\ pc' = "sleep"
    /\ ObserveRead(r, FALSE)
    /\ UNCHANGED <<config, sysfs, drm, kscreen, sleeps, state, hardware, calls>>

\* the still-waiting arm reads the clock a second time, d after the guard
\* did, and computes remaining = grace_period - started.elapsed()
PollWait(r) ==
    /\ pc = "poll"
    /\ ~Holds(r)
    /\ Desired(r) # state
    /\ transition_started # None
    /\ ~GraceElapsed(transition_started, now)
    /\ \E d \in 0..MaxDrift :
          /\ now + d <= MaxTime
          /\ grace_period - Elapsed(transition_started, now + d) >= 0
          /\ now' = now + d
    /\ dpms' = r
    /\ outcome' = "waiting"
    /\ result' = "Ok"
    /\ pc' = "sleep"
    /\ ObserveRead(r, FALSE)
    /\ UNCHANGED <<config, sysfs, drm, kscreen, sleeps, state, transition_started, hardware, calls>>

\* the same arm when the second clock read shows more than grace_period:
\* Duration's subtraction panics on underflow and the thread unwinds out
\* of Daemon::run
PollWaitPanic(r) ==
    /\ pc = "poll"
    /\ ~Holds(r)
    /\ Desired(r) # state
    /\ transition_started # None
    /\ ~GraceElapsed(transition_started, now)
    /\ \E d \in 0..MaxDrift :
          /\ now + d <= MaxTime
          /\ grace_period - Elapsed(transition_started, now + d) < 0
          /\ now' = now + d
    /\ dpms' = r
    /\ outcome' = "panic"
    /\ result' = "Ok"
    /\ pc' = "panicked"
    /\ ObserveRead(r, FALSE)
    /\ UNCHANGED <<config, sysfs, drm, kscreen, sleeps, state, transition_started, hardware, calls>>

\* Daemon::poll: display::read_dpms gives the reading r
Poll(r) ==
    \/ PollUnknown(r)
    \/ PollAgree(r)
    \/ PollStart(r)
    \/ PollCommit(r)
    \/ PollWait(r)
    \/ PollWaitPanic(r)

\* ---- Daemon::run ----
Next ==
    \/ RunApplyInitial
    \/ Sleep
    \/ \E r \in DpmsState : PollUnknown(r)
    \/ \E r \in DpmsState : PollAgree(r)
    \/ \E r \in DpmsState : PollStart(r)
    \/ \E r \in DpmsState : PollCommit(r)
    \/ \E r \in DpmsState : PollWait(r)
    \/ \E r \in DpmsState : PollWaitPanic(r)

\* ---- Daemon::run, from construction on ----
Spec == Init /\ [][Next]_vars

\* ---- Daemon::run on a thread that the scheduler keeps running ----
\* every call of the loop returns: thread::sleep wakes up and poll comes
\* back, so a step of the loop that can be taken is taken
SpecFair == Init /\ [][Next]_vars /\ WF_vars(Next)

\* ---- display::read_dpms on its own ----
\* a daemon that is constructed and does not run, for the specifications of
\* single functions
DaemonIdle ==
    /\ config_source = "default"
    /\ main_display = ConfigDefault.main_display
    /\ dummy_plug = ConfigDefault.dummy_plug
    /\ poll_interval = ConfigDefault.poll_interval
    /\ grace_period = ConfigDefault.grace_period
    /\ state = InitialState(dpms)
    /\ transition_started = None
    /\ now = 0
    /\ pc = "start"
    /\ dummy = FALSE
    /\ service = FALSE
    /\ calls = <<>>
    /\ outcome = "none"
    /\ result = "Ok"
    /\ lastDefinite = "Unknown"
    /\ runStart = 0
    /\ changes = 0
    /\ disagreeSince = None
    /\ reads = 1
    /\ sleeps = 0
    /\ scenario = Broken
    /\ sinksOk = TRUE

\* Daemon::new has read with neither file in place
InitReadDpms ==
    /\ card1 = Unreadable
    /\ card0 = Unreadable
    /\ WaitNotCalled
    /\ ParseNotCalled
    /\ dpms = ReadDpms(card1, card0)
    /\ DaemonIdle

\* one more call of read_dpms, on whatever the two files now are
ReadDpmsCall ==
    /\ \E c1, c0 \in DpmsFiles :
          /\ card1' = c1
          /\ card0' = c0
          /\ dpms' = ReadDpms(c1, c0)
    /\ UNCHANGED <<config, drm, kscreen, state, transition_started, now, pc, hardware, calls, outcome, result,
                   observers, sleeps>>

SpecReadDpms == InitReadDpms /\ [][ReadDpmsCall]_vars

\* ---- display::wait_for_drm_active on its own ----
\* Duration::from_millis(500), in units of 250 ms
poll == 2

\* since when the display has been active without a break, at time at
Since(e1, e0, since, at) ==
    IF ~IsDrmActive(e1, e0) THEN None
    ELSE IF since = None THEN Some(at)
    ELSE since

\* the call: start = Instant::now(), with the two files as they are
InitWait ==
    /\ enabled1 \in EnabledFiles
    /\ enabled0 \in EnabledFiles
    /\ timeout \in 0..MaxTimeout
    /\ start = Some(0)
    /\ wake_at = 0
    /\ wait_pc = "while"
    /\ wait_result = "none"
    /\ activeSince = Since(enabled1, enabled0, None, 0)
    /\ card1 = Unreadable
    /\ card0 = Unreadable
    /\ dpms = ReadDpms(card1, card0)
    /\ ParseNotCalled
    /\ DaemonIdle

idle == <<config, sysfs, kscreen, state, transition_started, pc, dpms, hardware, calls, outcome, result,
          observers, sleeps>>

\* the loop condition start.elapsed() < timeout; past the loop, Err
WaitWhile ==
    /\ wait_pc = "while"
    /\ IF Elapsed(start, now) < timeout
       THEN /\ wait_pc' = "if"
            /\ wait_result' = wait_result
       ELSE /\ wait_pc' = "done"
            /\ wait_result' = "Err"
    /\ UNCHANGED <<idle, now, enabled1, enabled0, timeout, start, wake_at, activeSince>>

\* if is_drm_active(name) { return Ok(()) }, else thread::sleep(poll)
WaitIf ==
    /\ wait_pc = "if"
    /\ IF IsDrmActive(enabled1, enabled0)
       THEN /\ wait_pc' = "done"
            /\ wait_result' = "Ok"
            /\ wake_at' = wake_at
       ELSE /\ wait_pc' = "sleep"
            /\ wait_result' = wait_result
            /\ wake_at' = now + poll
    /\ UNCHANGED <<idle, now, enabled1, enabled0, timeout, start, activeSince>>

\* thread::sleep returns, poll or more after it was called
WaitWake ==
    /\ wait_pc = "sleep"
    /\ now >= wake_at
    /\ wait_pc' = "while"
    /\ UNCHANGED <<idle, now, enabled1, enabled0, timeout, start, wake_at, wait_result, activeSince>>

\* the clock moves on while the thread sleeps
ClockPasses ==
    /\ wait_pc = "sleep"
    /\ now < wake_at + MaxJitter
    /\ now < MaxTime
    /\ now' = now + 1
    /\ UNCHANGED <<idle, enabled1, enabled0, timeout, start, wake_at, wait_pc, wait_result, activeSince>>

\* the kernel or the compositor changes the enabled files while the call
\* is in progress
DrmChanges ==
    /\ wait_pc # "done"
    /\ \E e1, e0 \in EnabledFiles :
          /\ <<e1, e0>> # <<enabled1, enabled0>>
          /\ enabled1' = e1
          /\ enabled0' = e0
          /\ activeSince' = Since(e1, e0, activeSince, now)
    /\ UNCHANGED <<idle, now, timeout, start, wake_at, wait_pc, wait_result>>

NextWait == WaitWhile \/ WaitIf \/ WaitWake \/ ClockPasses \/ DrmChanges

SpecWait == InitWait /\ [][NextWait]_vars

\* ---- display::parse_displays on its own ----
\* lines as kscreen-doctor -o prints them, and lines it should never print
OutputLines ==
    {<<"O", "u", "t", "p", "u", "t", ":", " ", "1", " ", "A", " ", "u">>,
     <<"O", "u", "t", "p", "u", "t", ":", " ", "2", " ", "B", " ", "v">>,
     <<"O", "u", "t", "p", "u", "t", ":", " ", "4", "2", "9", "4", "9", "6", "7", "2", "9", "6", " ", "B", " ", "v">>,
     <<"O", "u", "t", "p", "u", "t", ":", "3", " ", "C", " ", "w">>,
     <<"\t", "e", "n", "a", "b", "l", "e", "d">>,
     <<"\t", "d", "i", "s", "a", "b", "l", "e", "d">>,
     <<"\t", "c", "o", "n", "n", "e", "c", "t", "e", "d">>,
     <<"\t", "d", "i", "s", "c", "o", "n", "n", "e", "c", "t", "e", "d">>,
     <<"\t", "M", "o", "d", "e", "s", ":", " ", "1", ":", "2", "x", "3", "@", "4", "*">>,
     <<"\t", "M", "o", "d", "e", "s", ":", " ", "1", ":", "2", "x", "3">>,
     <<" ", "O", "u", "t", "p", "u", "t", ":", " ", "9", " ", "Z", " ", "w">>}

InitParse ==
    /\ output = <<>>
    /\ displays = ParseDisplays(output)
    /\ card1 = Unreadable
    /\ card0 = Unreadable
    /\ dpms = ReadDpms(card1, card0)
    /\ WaitNotCalled
    /\ DaemonIdle

\* get_displays calls parse_displays on an output one line longer
ParseDisplaysCall ==
    /\ Len(Lines(output)) < MaxLines
    /\ \E line \in OutputLines :
          /\ output' = IF output = <<>> THEN line ELSE output \o <<"\n">> \o line
          /\ displays' = ParseDisplays(output')
    /\ UNCHANGED <<config, sysfs, drm, state, transition_started, now, pc, dpms, hardware, calls,
                   outcome, result, observers, sleeps>>

SpecParse == InitParse /\ [][ParseDisplaysCall]_vars

\* ---- properties ----
\* the reading of the step's poll is dpms', and a step that calls a
\* collaborator leaves the calls it made in calls'
Pending == transition_started # None
Agrees(r) == r # "Unknown" /\ Desired(r) = state
Disagrees(r) == r # "Unknown" /\ Desired(r) # state

\* C1: poll changes the committed state only in a tick where
\* transition_started is Some(t), the reading maps to the other state and
\* the time elapsed since t is at least grace_period; while the timer has
\* been set for less than grace_period the state does not change and no
\* collaborator is called.
C1_CommitOnlyAfterGrace ==
    [][ /\ state' # state =>
             /\ pc = "poll"
             /\ transition_started # None
             /\ Disagrees(dpms')
             /\ state' = Desired(dpms')
             /\ now - transition_started[1] >= grace_period
        /\ (transition_started # None /\ now' - transition_started[1] < grace_period) =>
             /\ state' = state
             /\ calls' = <<>>
      ]_vars

C1_Witness ==
    /\ outcome = "commit"
    /\ grace_period >= 2
    /\ state = "Away"

\* C2 as claimed: transition_started is Some only while the most recent
\* reading maps to a state different from the committed one, and is None
\* as soon as they agree.
C2_PendingOnlyWhileLastReadingDisagrees ==
    /\ Pending => Disagrees(dpms)
    /\ Agrees(dpms) => ~Pending

\* C2 as amended: transition_started is Some only while the most recent
\* reading other than Unknown maps to a state different from the
\* committed one (Unknown readings after it leave the timer set), and is
\* None as soon as a reading agrees.
C2_PendingOnlyWhileLastDefiniteDisagrees ==
    /\ Pending => Disagrees(lastDefinite)
    /\ Agrees(dpms) => ~Pending

C2_Witness ==
    /\ Pending
    /\ dpms = "Unknown"
    /\ lastDefinite = "Off"

\* C3 as claimed: the state changes at most once per maximal run of
\* identical readings, and only when the run of identical disagreeing
\* readings the committing reading belongs to has lasted grace_period.
C3_ChangeOncePerIdenticalRun ==
    [][ state' # state =>
          /\ changes' <= 1
          /\ now - runStart' >= grace_period
      ]_vars

\* C3 as amended: the state changes at most once per maximal run of
\* identical readings, and only when grace_period has elapsed since the
\* first disagreeing reading of the stretch of readings, none of them
\* agreeing, that the committing reading ends; Unknown readings inside the
\* stretch neither end it nor restart it.
C3_ChangeOncePerDisagreeingStretch ==
    [][ state' # state =>
          /\ changes' <= 1
          /\ disagreeSince # None
          /\ now - disagreeSince[1] >= grace_period
      ]_vars

C3_Witness ==
    /\ outcome = "commit"
    /\ changes = 1
    /\ grace_period >= 2
    /\ runStart = now

\* C4: flapping immunity.  A reading that maps to the committed state,
\* arriving while a transition is pending and before grace_period has
\* elapsed, sets transition_started to None, leaves the state unchanged and
\* calls no collaborator; a disagreeing reading met with no timer set
\* starts a fresh timer at the time of that poll.
C4_FlappingImmunity ==
    [][ /\ ( /\ pc = "poll"
             /\ Pending
             /\ Agrees(dpms')
             /\ now - transition_started[1] < grace_period ) =>
                /\ transition_started' = None
                /\ state' = state
                /\ calls' = <<>>
                /\ hardware' = hardware
        /\ (pc = "poll" /\ ~Pending /\ Disagrees(dpms')) =>
                /\ transition_started' = Some(now)
                /\ state' = state
                /\ calls' = <<>>
      ]_vars

C4_Witness ==
    /\ outcome = "cleared"
    /\ now < grace_period
    /\ state = "AtDesk"
    /\ dpms = "On"

\* C5: a poll whose reading is Unknown leaves the state and
\* transition_started as they were and calls no collaborator, in both
\* states, with or without a pending transition, any number of times.
C5_UnknownHolds ==
    [][ (pc = "poll" /\ dpms' = "Unknown") =>
          /\ state' = state
          /\ transition_started' = transition_started
          /\ calls' = <<>>
          /\ hardware' = hardware
      ]_vars

C5_Witness ==
    /\ outcome = "hold"
    /\ Pending
    /\ state = "Away"
    /\ runStart < now

\* the operations called, in order
Ops(cs) == [i \in 1..Len(cs) |-> cs[i].op]
Count(cs, op) == Cardinality({i \in 1..Len(cs) : cs[i].op = op})
ReportedRunning(cs) == cs # <<>> /\ cs[1] = Call("is_running", "true")

\* C6 as claimed: every commit to Away calls enable-output and then
\* start-service, each exactly once; every commit to AtDesk with the
\* service reported running calls stop-service and then disable-output,
\* each exactly once.
C6_CommitCallsBothStepsInOrder ==
    outcome = "commit" =>
        /\ state = "Away" => Ops(calls) = <<"enable_dummy_plug", "start">>
        /\ (state = "AtDesk" /\ ReportedRunning(calls)) =>
              Ops(calls) = <<"is_running", "stop", "disable_dummy_plug">>

\* C6 as amended: every commit to Away calls enable-output exactly once
\* and, when that call succeeded, start-service exactly once after it;
\* every commit to AtDesk with the service reported running calls
\* stop-service exactly once and, when that call succeeded, disable-output
\* exactly once after it.  The second step is not called when the first
\* fails.
C6_CommitCallsStepsInOrderUntilFailure ==
    outcome = "commit" =>
        /\ state = "Away" =>
              /\ calls[1].op = "enable_dummy_plug"
              /\ Count(calls, "enable_dummy_plug") = 1
              /\ IF calls[1].ret = "ok"
                 THEN Ops(calls) = <<"enable_dummy_plug", "start">>
                 ELSE Ops(calls) = <<"enable_dummy_plug">>
        /\ (state = "AtDesk" /\ ReportedRunning(calls)) =>
              /\ calls[2].op = "stop"
              /\ Count(calls, "stop") = 1
              /\ IF calls[2].ret = "ok"
                 THEN Ops(calls) = <<"is_running", "stop", "disable_dummy_plug">>
                 ELSE Ops(calls) = <<"is_running", "stop">>

C6_Witness ==
    /\ outcome = "commit"
    /\ state = "AtDesk"
    /\ Ops(calls) = <<"is_running", "stop", "disable_dummy_plug">>
    /\ result = "Ok"

\* C7: when a collaborator call fails during a commit, the committed state
\* stays at the new value, transition_started stays None, and the steps
\* already applied are not undone: the failing call is the last call of
\* the tick and what succeeded before it is still in effect.
C7_FailedCommitNotRolledBack ==
    (outcome = "commit" /\ result = "Err") =>
        /\ state = Desired(dpms)
        /\ changes >= 1
        /\ transition_started = None
        /\ calls[Len(calls)].ret = "err"
        /\ \A i \in 1..(Len(calls) - 1) : calls[i].ret # "err"
        /\ state = "Away" =>
              /\ Count(calls, "disable_dummy_plug") = 0
              /\ Count(calls, "stop") = 0
              /\ Succeeded(calls, "enable_dummy_plug") => dummy
        /\ state = "AtDesk" =>
              /\ Count(calls, "enable_dummy_plug") = 0
              /\ Count(calls, "start") = 0
              /\ Succeeded(calls, "stop") => ~service

C7_Witness ==
    /\ outcome = "commit"
    /\ result = "Err"
    /\ state = "Away"
    /\ Succeeded(calls, "enable_dummy_plug")
    /\ pc = "sleep"

\* C8: the polling loop never aborts: Daemon::run is always at its startup
\* reconciliation, at its sleep or at its poll.
C8_LoopNeverAborts == pc \in {"start", "sleep", "poll"}

\* C9: collaborators are called only by the one startup reconciliation and
\* by a tick that commits; a tick that holds, does nothing, starts waiting
\* or is still waiting calls none and leaves the hardware alone, so a step
\* that failed in a commit is not tried again while the readings agree with
\* the committed state.
C9_EffectsOnlyAtStartupAndCommit ==
    [][ /\ calls' # <<>> =>
             \/ pc = "start" /\ now = 0 /\ outcome' = "initial"
             \/ pc = "poll" /\ state' # state /\ outcome' = "commit"
        /\ outcome' \in {"hold", "noop", "cleared", "started", "waiting"} =>
             /\ calls' = <<>>
             /\ hardware' = hardware
        /\ pc' # "start"
      ]_vars

C9_Witness ==
    /\ outcome = "noop"
    /\ changes = 1
    /\ state = "Away"
    /\ ~dummy

\* C10: stop_service is called only right after an is_running query of the
\* same AtDesk sequence answered true, never on the Away path; when the
\* query answers false the next call is disable-output.
C10_StopOnlyWhenReportedRunning ==
    \A i \in 1..Len(calls) :
        /\ calls[i].op = "stop" =>
              /\ state = "AtDesk"
              /\ i > 1
              /\ calls[i - 1] = Call("is_running", "true")
        /\ calls[i] = Call("is_running", "false") =>
              /\ i < Len(calls)
              /\ calls[i + 1].op = "disable_dummy_plug"
              /\ Count(calls, "stop") = 0
        /\ calls[i] = Call("is_running", "true") =>
              /\ i < Len(calls)
              /\ calls[i + 1].op = "stop"

C10_Witness ==
    /\ outcome = "initial"
    /\ Count(calls, "stop") = 1
    /\ ~service

\* C11: Daemon::new derives the initial committed state from exactly one
\* signal read: Off gives Away, On gives AtDesk, Unknown gives AtDesk; and
\* transition_started is None in all three cases.
C11_InitialStateFromOneRead ==
    pc = "start" =>
        /\ reads = 1
        /\ dpms = "Off" => state = "Away"
        /\ dpms = "On" => state = "AtDesk"
        /\ dpms = "Unknown" => state = "AtDesk"
        /\ transition_started = None
        /\ calls = <<>>

C11_Witness ==
    /\ pc = "start"
    /\ dpms = "Unknown"
    /\ state = "AtDesk"
    /\ reads = 1

\* C12: Daemon::run applies the effects of the initially committed state
\* exactly once, before the first sleep and before the first signal read of
\* the loop, and applies effects again only on a commit; every signal read
\* of the loop is preceded by a sleep of at least poll_interval.
C12_ReconcileOnceThenSleepBeforeEachRead ==
    [][ /\ outcome' = "initial" =>
             /\ pc = "start"
             /\ sleeps = 0
             /\ reads = 1
             /\ now = 0
             /\ calls'[1].op = IF state = "Away" THEN "enable_dummy_plug" ELSE "is_running"
        /\ pc = "start" => outcome' = "initial"
        /\ pc' # "start"
        /\ (calls' # <<>> /\ pc # "start") => outcome' = "commit"
        /\ reads' # reads =>
             /\ pc = "poll"
             /\ sleeps >= reads
        /\ pc' = "poll" =>
             /\ pc = "sleep"
             /\ sleeps' # sleeps \/ sleeps = MaxTicks
             /\ now' - now >= poll_interval
             /\ reads' = reads
      ]_vars

C12_Witness ==
    /\ pc = "poll"
    /\ sleeps = 1
    /\ reads = 1
    /\ poll_interval > 0
    /\ now >= poll_interval

\* the state a poll has just left
AfterPoll == outcome \notin {"none", "initial"}
InScenarioA(n) == scenario # Broken /\ Len(scenario) = n /\ grace_period > 0 /\ AfterPoll

\* C13 as claimed (Scenario A): starting AtDesk with signal On, the first
\* three Off readings, grace_period / 2 apart, produce no commit; the
\* fourth Off commits to Away, calling enable-output and then
\* start-service, each exactly once.
C13_ScenarioA_NoCommitBeforeFourthOff ==
    /\ (InScenarioA(1) \/ InScenarioA(2) \/ InScenarioA(3)) =>
          /\ state = "AtDesk"
          /\ outcome # "commit"
          /\ calls = <<>>
    /\ InScenarioA(4) =>
          /\ state = "Away"
          /\ outcome = "commit"
          /\ Ops(calls) = <<"enable_dummy_plug", "start">>

\* C13 as amended: starting AtDesk with signal On, the first two Off
\* readings, grace_period / 2 apart, produce no commit; the third Off,
\* read when grace_period has elapsed since the first, commits to Away,
\* calling enable-output exactly once and, when that call succeeded,
\* start-service exactly once after it; a fourth Off finds the state
\* agreeing and calls nothing.
C13_ScenarioA_CommitAtThirdOff ==
    /\ (InScenarioA(1) \/ InScenarioA(2)) =>
          /\ state = "AtDesk"
          /\ outcome # "commit"
          /\ calls = <<>>
    /\ InScenarioA(1) => transition_started = Some(scenario[1])
    /\ InScenarioA(3) =>
          /\ now - scenario[1] = grace_period
          /\ state = "Away"
          /\ outcome = "commit"
          /\ transition_started = None
          /\ IF calls[1].ret = "ok"
             THEN Ops(calls) = <<"enable_dummy_plug", "start">>
             ELSE Ops(calls) = <<"enable_dummy_plug">>
    /\ InScenarioA(4) =>
          /\ state = "Away"
          /\ outcome = "noop"
          /\ calls = <<>>

C13_Witness ==
    /\ InScenarioA(3)
    /\ outcome = "commit"
    /\ result = "Ok"
    /\ Ops(calls) = <<"enable_dummy_plug", "start">>

\* C14: a single disagreeing reading never triggers an effect, whatever
\* grace_period is, zero included: the first poll that meets a disagreement
\* with no timer set only starts the timer, and a commit is always the
\* second or a later poll of a stretch of disagreeing readings with no
\* agreeing reading in it.
C14_FirstDisagreementOnlyStartsTimer ==
    [][ /\ (pc = "poll" /\ ~Pending /\ Disagrees(dpms')) =>
             /\ outcome' = "started"
             /\ state' = state
             /\ calls' = <<>>
             /\ hardware' = hardware
             /\ transition_started' # None
        /\ outcome' = "commit" =>
             /\ Pending
             /\ disagreeSince # None
             /\ Disagrees(lastDefinite)
             /\ Disagrees(dpms')
      ]_vars

C14_Witness ==
    /\ grace_period = 0
    /\ outcome = "started"
    /\ Pending
    /\ calls = <<>>

\* a call sequence of apply_state that has run to its end: it stopped at a
\* failure or made the last call of the path for state s
Complete(cs, s) ==
    /\ cs # <<>>
    /\ \/ cs[Len(cs)].ret = "err"
       \/ cs[Len(cs)].op = IF s = "Away" THEN "start" ELSE "disable_dummy_plug"
EffectOps == {"enable_dummy_plug", "start", "is_running", "stop", "disable_dummy_plug"}

\* C15: the effects of a committed transition are all applied, or abandoned
\* at a failure, within the committing tick: the sequence is at its end
\* when the tick's poll returns, each collaborator is called at most once
\* in it, the following sleep calls none, the next signal read starts with
\* no call outstanding, and state and transition_started are written by
\* poll steps only.
C15_CommitEffectsWithinTheTick ==
    [][ /\ outcome' = "commit" =>
             /\ pc = "poll"
             /\ pc' = "sleep"
             /\ Complete(calls', state')
             /\ \A op \in EffectOps : Count(calls', op) <= 1
        /\ pc = "sleep" =>
             /\ calls' = <<>>
             /\ hardware' = hardware
        /\ pc = "poll" =>
             /\ calls = <<>>
             /\ outcome = "none"
        /\ (state' # state \/ transition_started' # transition_started) => pc = "poll"
        /\ hardware' # hardware => calls' # <<>>
      ]_vars

C15_Witness ==
    /\ outcome = "commit"
    /\ result = "Err"
    /\ state = "AtDesk"
    /\ Count(calls, "stop") = 1
    /\ Count(calls, "disable_dummy_plug") = 0

\* the content is the word with nothing but white space around it
Padded(cs, word) ==
    \E a \in 0..Len(cs) :
        /\ a + Len(word) <= Len(cs)
        /\ SubSeq(cs, a + 1, a + Len(word)) = word
        /\ \A k \in 1..a : IsWhitespace(cs[k])
        /\ \A k \in (a + Len(word) + 1)..Len(cs) : IsWhitespace(cs[k])
FirstReadable == IF card1.readable THEN card1 ELSE card0

\* C16: read_dpms never fails: its result is On, Off or Unknown; it is On
\* (Off) exactly when the first readable file among the card1 and the card0
\* path has trimmed content "On" ("Off"); when neither file can be read, or
\* the first readable file has any other content, it is Unknown.
C16_ReadDpmsFirstReadableFile ==
    /\ dpms \in DpmsState
    /\ dpms = "On" <=> (FirstReadable.readable /\ Padded(FirstReadable.content, <<"O", "n">>))
    /\ dpms = "Off" <=> (FirstReadable.readable /\ Padded(FirstReadable.content, <<"O", "f", "f">>))
    /\ (~card1.readable /\ ~card0.readable) => dpms = "Unknown"

C16_Witness ==
    /\ card1 = File(<<"S", "t", "a", "n", "d", "b", "y", "\n">>)
    /\ card0 = File(<<"O", "n", "\n">>)
    /\ dpms = "Unknown"

\* C17: Config::default yields a poll interval of 5 s and a grace period of
\* 10 s, with main display DP-2 and dummy plug HDMI-A-1, and no step of
\* new, run, poll or apply_state changes the configuration.
C17_DefaultConfigNeverMutated ==
    /\ config_source = "default" =>
          /\ poll_interval = 5
          /\ grace_period = 10
          /\ main_display = "DP-2"
          /\ dummy_plug = "HDMI-A-1"
    /\ [][config' = config]_vars

C17_Witness ==
    /\ config_source = "default"
    /\ grace_period = 10
    /\ outcome = "started"
    /\ now >= 5

\* C18: in the still-waiting arm, remaining = grace_period - elapsed, with
\* elapsed read from the clock after the guard read it, is never negative,
\* however much time passes between the two clock reads, so the
\* subtraction does not panic.
C18_RemainingNeverUnderflows ==
    [][ (pc = "poll" /\ Pending /\ Disagrees(dpms')
           /\ now - transition_started[1] < grace_period) =>
             /\ grace_period - (now' - transition_started[1]) >= 0
             /\ outcome' = "waiting"
      ]_vars

\* C19: Unknown readings neither reset nor pause the grace timer: a
\* disagreeing reading that follows an Unknown reading, with a disagreeing
\* reading before it and no agreeing reading since, commits as soon as
\* grace_period has elapsed since that earlier disagreeing reading, and is
\* still waiting for exactly the remainder before that.
C19_UnknownKeepsTimerRunning ==
    [][ /\ (pc = "poll" /\ dpms = "Unknown" /\ disagreeSince # None /\ Disagrees(dpms')
              /\ now - disagreeSince[1] >= grace_period) =>
                /\ outcome' = "commit"
                /\ state' = Desired(dpms')
                /\ state' # state
        /\ (pc = "poll" /\ dpms = "Unknown" /\ disagreeSince # None /\ Disagrees(dpms')
              /\ now - disagreeSince[1] < grace_period) =>
                /\ outcome' \in {"waiting", "panic"}
                /\ transition_started' = disagreeSince
        /\ (pc = "poll" /\ dpms' = "Unknown" /\ disagreeSince # None) =>
                transition_started' = disagreeSince
      ]_vars

C19_Witness ==
    /\ outcome = "commit"
    /\ state = "AtDesk"
    /\ dpms = "On"
    /\ runStart = now
    /\ grace_period = MaxGrace

\* C20: apply_state stops at the first failing step: a failed call is the
\* last call of its sequence; on the Away path a failed enable-output means
\* start-service is not called, on the AtDesk path a failed stop-service
\* means disable-output is not called.
C20_ApplyStopsAtFirstFailure ==
    /\ \A i \in 1..Len(calls) : calls[i].ret = "err" => i = Len(calls)
    /\ (\E i \in 1..Len(calls) : calls[i] = Call("enable_dummy_plug", "err")) =>
          /\ Count(calls, "start") = 0
          /\ result = "Err"
    /\ (\E i \in 1..Len(calls) : calls[i] = Call("stop", "err")) =>
          /\ Count(calls, "disable_dummy_plug") = 0
          /\ result = "Err"
    /\ result = "Err" <=> (\E i \in 1..Len(calls) : calls[i].ret = "err")

C20_Witness ==
    /\ outcome = "commit"
    /\ calls = <<Call("enable_dummy_plug", "err")>>
    /\ result = "Err"
    /\ ~service

\* C21: as long as every effect-sink call has succeeded and is_running has
\* answered with the true service status (nothing but apply_state changes
\* the hardware), at every tick boundary after the startup reconciliation
\* the hardware matches the committed state: Away has the dummy output
\* enabled and the service running, AtDesk has the service stopped and the
\* dummy output disabled.
C21_HardwareMatchesState ==
    (sinksOk /\ pc \in {"sleep", "poll"}) =>
        /\ state = "Away" => (dummy /\ service)
        /\ state = "AtDesk" => (~service /\ ~dummy)

\* a commit to Away on hardware that the startup reconciliation had put
\* in the AtDesk configuration
C21_Witness ==
    /\ sinksOk
    /\ pc = "sleep"
    /\ outcome = "commit"
    /\ state = "Away"
    /\ calls = <<Call("enable_dummy_plug", "ok"), Call("start", "ok")>>
    /\ dummy
    /\ service

\* the clock of the model has room for the ticks up to the commit of the
\* pending transition
Room == transition_started[1] + grace_period + poll_interval <= MaxTime

\* the readings since the transition became pending have not all mapped to
\* the other state
Interrupted == outcome \in {"hold", "noop", "cleared"}

\* no further tick occurs: poll has unwound out of Daemon::run
TicksStopped == pc = "panicked"

\* C22: liveness: when a transition is pending and poll_interval > 0, then
\* if ticks keep occurring, each advancing the clock by at least
\* poll_interval, and every reading from then on maps to the state
\* opposite to the committed one, the state eventually commits to the
\* opposite value, whether the effect-sink calls succeed or fail. Stated
\* as a leads-to: the commit comes unless a reading agrees or is Unknown,
\* or the ticks stop.
C22_SustainedDisagreementCommits ==
    (pc = "sleep" /\ Pending /\ poll_interval > 0 /\ Room) ~>
        (outcome = "commit" \/ Interrupted \/ TicksStopped)

\* a commit whose effect-sink call failed, at the fourth reading, after
\* grace_period of readings that all mapped to the other state
C22_Witness ==
    /\ outcome = "commit"
    /\ result = "Err"
    /\ poll_interval = 1
    /\ grace_period = MaxGrace
    /\ reads = 4
    /\ changes = 1
    /\ runStart + grace_period <= now

\* C23: wait_for_drm_active returns Ok whenever the display is DRM-active at
\* call time or becomes active before the timeout expires (and then stays
\* active), and returns Err only if the display never became active within
\* the timeout.
C23_OkWheneverActiveWithinTimeout ==
    (/\ wait_pc = "done"
     /\ activeSince # None
     /\ activeSince = start \/ Elapsed(start, activeSince[1]) < timeout) =>
        wait_result = "Ok"

\* the lines of the output, the header lines among them, and the block of
\* a header: the lines after it up to the next header or the end
OutLines == Lines(output)
Headers == {i \in 1..Len(OutLines) : StartsWith(OutLines[i], OutputPrefix)}
HeaderAt(k) == CHOOSE h \in Headers : Cardinality({g \in Headers : g < h}) = k - 1
BlockEnd(h) ==
    IF \E g \in Headers : g > h
    THEN (CHOOSE g \in Headers : g > h /\ \A f \in Headers : f > h => g <= f) - 1
    ELSE Len(OutLines)
Block(h) == (h + 1)..BlockEnd(h)

\* the last line of the block of h that is one of the words kws, <<>> when none is
LastOf(h, kws) ==
    LET is == {i \in Block(h) : Trim(OutLines[i]) \in kws} IN
    IF is = {} THEN <<>>
    ELSE Trim(OutLines[CHOOSE i \in is : \A j \in is : j <= i])

ModesLines(h) == {i \in Block(h) : StartsWith(Trim(OutLines[i]), ModesPrefix)}

\* the block of h has an error: a header of fewer than four words or with
\* an index that is no u32, or a Modes line that does not parse
BlockFails(h) ==
    \/ Len(SplitWhitespace(OutLines[h])) < 4
    \/ ~ParseU32(SplitWhitespace(OutLines[h])[2]).ok
    \/ \E i \in ModesLines(h) : ~ParseModes(Trim(OutLines[i])).ok

\* C24: parse_displays returns exactly one Display per line starting with
\* "Output:", in input order, each built from that header and the body
\* lines up to the next header: lines before the first header are
\* ignored, enabled/disabled and connected/disconnected take the last
\* keyword seen and default to Disabled and Disconnected, the modes are
\* those of the last Modes line; an error in any one block makes the whole
\* call fail.
C24_OneDisplayPerHeaderInOrder ==
    /\ displays.ok <=> (\A h \in Headers : ~BlockFails(h))
    /\ displays.ok =>
          /\ Len(displays.val) = Cardinality(Headers)
          /\ \A k \in 1..Len(displays.val) :
                LET h == HeaderAt(k)
                    d == displays.val[k]
                    parts == SplitWhitespace(OutLines[h])
                IN
                /\ d.index = ParseU32(parts[2]).val
                /\ d.name = parts[3]
                /\ d.uuid = parts[4]
                /\ d.state = IF LastOf(h, {KwEnabled, KwDisabled}) = KwEnabled
                             THEN "Enabled" ELSE "Disabled"
                /\ d.connection = IF LastOf(h, {KwConnected, KwDisconnected}) = KwConnected
                                  THEN "Connected" ELSE "Disconnected"
                /\ d.modes = IF ModesLines(h) = {} THEN <<>>
                             ELSE ParseModes(Trim(OutLines[
                                      CHOOSE i \in ModesLines(h) :
                                          \A j \in ModesLines(h) : j <= i])).val

\* two headers, the first with the body lines disabled and enabled, the
\* second with none: two displays in that order, the first Enabled, the
\* second with the defaults
C24_Witness ==
    /\ displays.ok
    /\ Len(OutLines) = 4
    /\ Trim(OutLines[2]) = KwDisabled
    /\ Trim(OutLines[3]) = KwEnabled
    /\ Len(displays.val) = 2
    /\ displays.val[1].index = 1
    /\ displays.val[1].name = <<"A">>
    /\ displays.val[1].state = "Enabled"
    /\ displays.val[2].index = 2
    /\ displays.val[2].name = <<"B">>
    /\ displays.val[2].state = "Disabled"
    /\ displays.val[2].connection = "Disconnected"

====
